---- MODULE Spec2Model ----
(***************************************************************************)
(* A model of the octree builder src/bin/build_octree.rs: the recursive    *)
(* parallel splitter (split, split_node), the NodeWriter, the progress     *)
(* channel and its reporter, and the subsample loop of main with           *)
(* subsample_children_into.                                                *)
(*                                                                         *)
(* Node names are strings over {r,0..7}.  A point is a record with a       *)
(* position (x,y,z) and a colour (r,g,b).  Coordinates are integers in     *)
(* units of 1/Scale of a grid step, so that every bounding-box centre the  *)
(* model computes down to the deepest split is an exact integer (as it is  *)
(* exact in f32 for these values).                                         *)
(***************************************************************************)
EXTENDS Integers, Sequences, FiniteSets, Bags, TLC

VARIABLES
    input,          \* the points of the input file, in file order
    size_hint,      \* TRUE iff the input stream knows its size (size_hint().1)
    files,          \* the output directory: node name -> points stored
    tasks,          \* split_node invocations: node name -> task record
    leaf_chan,      \* names sent on the leaf_nodes channel, in arrival order
    progress_chan,  \* Status messages in flight on the progress channel
    reporter,       \* the report_progress task: its pc and its HashMap
    main_pc,        \* where main is
    leaf_nodes,     \* main's Vec leaf_nodes
    subs,           \* subsample_children_into invocations of this iteration
    iterations      \* history: one record per iteration of the while loop

vars == <<input, size_hint, files, tasks, leaf_chan, progress_chan, reporter,
          main_pc, leaf_nodes, subs, iterations>>

---------------------------------------------------------------------------
(* Bounds of the model *)

\* the longest sequence of input points
MaxPoints == 4

\* split tasks run for node names of at most this length
MaxSplitLen == 5

(* Program constants.  The thresholds are 100000 in the source; the model  *)
(* scales them down so that a handful of points forces recursion.          *)

\* the leaf threshold of split_node
T == 3

UPDATE_COUNT == 2

\* a bug: a pool with a thread for the reporter only
PoolSize_reporter_only == Len(<< "report_progress" >>)

\* Pool::new(10)
PoolSize == 10

\* subsample_children_into keeps every point whose index is 0 modulo this
SampleStride == 8

---------------------------------------------------------------------------
(* Points and bounding boxes *)

RECURSIVE Pow2(_)
Pow2(n) == IF n = 0 THEN 1 ELSE 2 * Pow2(n - 1)

Scale == Pow2(MaxSplitLen + 2)

Vec(a, b, c) == [x |-> a * Scale, y |-> b * Scale, z |-> c * Scale]

Pt(a, b, c, col) == [position |-> Vec(a, b, c), r |-> col, g |-> col, b |-> col]

\* the points an input file is made of
PointPool ==
    << Pt(0, 0, 0, 10), Pt(1, 0, 0, 20), Pt(16, 4, 2, 30), Pt(12, 4, 2, 40), Pt(8, 0, 0, 50) >>

Max2(a, b) == IF a > b THEN a ELSE b
Min2(a, b) == IF a < b THEN a ELSE b

RECURSIVE SeqMin(_, _, _)
SeqMin(s, axis, k) ==
    IF k = 1 THEN s[1].position[axis]
    ELSE Min2(s[k].position[axis], SeqMin(s, axis, k - 1))

RECURSIVE SeqMax(_, _, _)
SeqMax(s, axis, k) ==
    IF k = 1 THEN s[1].position[axis]
    ELSE Max2(s[k].position[axis], SeqMax(s, axis, k - 1))

\* BoundingBox::new() then update() with every point
RawBox(s) ==
    [min |-> [a \in {"x", "y", "z"} |-> SeqMin(s, a, Len(s))],
     max |-> [a \in {"x", "y", "z"} |-> SeqMax(s, a, Len(s))]]

center(bb) == [a \in {"x", "y", "z"} |-> (bb.min[a] + bb.max[a]) \div 2]

\* BoundingBox::make_cubic: equal extents, centred on the original centre
make_cubic(bb) ==
    LET c == center(bb)
        e == Max2(bb.max.x - bb.min.x,
                  Max2(bb.max.y - bb.min.y, bb.max.z - bb.min.z))
    IN  [min |-> [a \in {"x", "y", "z"} |-> c[a] - e \div 2],
         max |-> [a \in {"x", "y", "z"} |-> c[a] + e \div 2]]

Bit(b) == IF b THEN 1 ELSE 0

\* a bug: a point on the centre plane goes to the upper octant
get_child_index_ge(bounding_box, v) ==
    LET c == center(bounding_box)
    IN  4 * Bit(v.x >= c.x) + 2 * Bit(v.y >= c.y) + Bit(v.z >= c.z)

get_child_index(bounding_box, v) ==
    LET c == center(bounding_box)
    IN  4 * Bit(v.x > c.x) + 2 * Bit(v.y > c.y) + Bit(v.z > c.z)

\* octree::get_child_bounding_box: the octant selected by the bit pattern
get_child_bounding_box(bb, child_index) ==
    LET c  == center(bb)
        hi == [x |-> (child_index \div 4) % 2 = 1,
               y |-> (child_index \div 2) % 2 = 1,
               z |-> child_index % 2 = 1]
    IN  [min |-> [a \in {"x", "y", "z"} |-> IF hi[a] THEN c[a] ELSE bb.min[a]],
         max |-> [a \in {"x", "y", "z"} |-> IF hi[a] THEN bb.max[a] ELSE c[a]]]

---------------------------------------------------------------------------
(* Node addressing *)

Digit == << "0", "1", "2", "3", "4", "5", "6", "7" >>

child_node_name(name, i) == name \o Digit[i + 1]

parent_node_name(name) ==
    IF Len(name) = 0 THEN name ELSE SubSeq(name, 1, Len(name) - 1)

Exists(fs, name) == name \in DOMAIN fs

\* File::create: the file exists and is empty
Create(fs, name) == [n \in DOMAIN fs \cup {name} |-> IF n = name THEN << >> ELSE fs[n]]

\* fs::remove_file, errors ignored
Remove(fs, name) == [n \in DOMAIN fs \ {name} |-> fs[n]]

---------------------------------------------------------------------------
(* NodeWriter.  The points written are modelled as reaching the file at    *)
(* once; num_points is kept by the owner of the writer.                    *)

NodeWriter_new(fs, path) == Create(fs, path)

NodeWriter_write(fs, path, p) == [fs EXCEPT ![path] = Append(@, p)]

\* a bug: the empty file is left behind
NodeWriter_drop_keep(fs, path, num_points) == fs

\* Drop for NodeWriter
NodeWriter_drop(fs, path, num_points) ==
    IF num_points = 0 THEN Remove(fs, path) ELSE fs


---------------------------------------------------------------------------
(* The inputs: every monotone arrangement of pool points, 1..MaxPoints     *)
(* long, and the inputs made of two clusters of T points each, which put   *)
(* two split tasks and two subsample tasks in the pool at the same time.   *)

PoolSeqs == UNION { [1..n -> 1..Len(PointPool)] : n \in 1..MaxPoints }

Monotone(s) ==
    \/ \A i \in 1..(Len(s) - 1) : s[i] <= s[i + 1]
    \/ \A i \in 1..(Len(s) - 1) : s[i] >= s[i + 1]

ShortInputs == { [i \in 1..Len(s) |-> PointPool[s[i]]] : s \in { t \in PoolSeqs : Monotone(t) } }

\* T points at the positions a and b, both present
Cluster(a, b) ==
    { [i \in 1..T |-> IF i = 1 THEN a ELSE IF i = 2 THEN b ELSE c] : c \in {a, b} }

WideInputs ==
    UNION { {near \o far, far \o near} :
            near \in Cluster(PointPool[1], PointPool[5]),
            far \in Cluster(PointPool[3], PointPool[4]) }

Inputs == ShortInputs \cup WideInputs

---------------------------------------------------------------------------
(* Split phase *)

NoProgress == << >>

\* SendingProgressReporter::send_status
send_status(chan, name, prog) ==
    Append(chan, [name |-> name, current_points |-> prog.current_points,
                  num_points |-> prog.num_points])

\* the task record of a split_node invocation that has been dispatched
PendingTask(bb, n) ==
    [pc |-> "pending", bounding_box |-> bb, num_points |-> n, num_point |-> 0,
     children |-> << >>, progress |-> NoProgress]

\* the stream a split_node invocation reads: the input for the root
\* (make_stream), the node's own file for the others (from_blob)
Stream(name) == IF name = "r" THEN input ELSE files[name]

Running(name) == name \in DOMAIN tasks /\ tasks[name].pc = "running"

\* pool threads in use: the reporter and every recursed task that runs; the
\* root's split_node runs on the main thread
BusyWorkers ==
    Cardinality({n \in DOMAIN tasks : n # "r" /\ tasks[n].pc = "running"})
    + Cardinality({n \in DOMAIN subs : subs[n].pc \notin {"pending", "done"}})
    + Bit(reporter.pc = "running")

Init ==
    /\ input \in Inputs
    /\ size_hint \in BOOLEAN
    /\ files = << >>
    /\ tasks = [n \in {"r"} |-> PendingTask(make_cubic(RawBox(input)), Len(input))]
    /\ leaf_chan = << >>
    /\ progress_chan = << >>
    /\ reporter = [pc |-> "pending", progress |-> << >>]
    /\ main_pc = "scoped"
    /\ leaf_nodes = << >>
    /\ subs = << >>
    /\ iterations = << >>

\* split_node up to the call of split: the stream is opened and, when it
\* knows its size, a SendingProgressReporter is made, which sends a status
SplitNodeBegin(name) ==
    /\ name \in DOMAIN tasks
    /\ tasks[name].pc = "pending"
    /\ Len(name) <= MaxSplitLen
    /\ IF name = "r" THEN main_pc = "scoped" ELSE BusyWorkers < PoolSize
    /\ LET hint == (name # "r") \/ size_hint
           prog == [current_points |-> 0, num_points |-> Len(Stream(name))]
       IN  /\ tasks' = [tasks EXCEPT ![name].pc = "running",
                                     ![name].progress = IF hint THEN <<prog>> ELSE NoProgress]
           /\ progress_chan' = IF hint THEN send_status(progress_chan, name, prog)
                               ELSE progress_chan
    /\ UNCHANGED <<input, size_hint, files, leaf_chan, reporter, main_pc,
                   leaf_nodes, subs, iterations>>

\* a bug: a writer is opened for every point
is_none_always(children, child_index) == TRUE

\* children[child_index].is_none()
is_none(children, child_index) == child_index \notin DOMAIN children

\* SendingProgressReporter::add
add(prog, count) ==
    [prog EXCEPT !.current_points = Min2(prog.current_points + count, prog.num_points)]

\* one iteration of the for loop of split
SplitPoint(name) ==
    /\ Running(name)
    /\ tasks[name].num_point < Len(Stream(name))
    /\ LET t           == tasks[name]
           p           == Stream(name)[t.num_point + 1]
           notify      == t.num_point % UPDATE_COUNT = 0 /\ t.progress # NoProgress
           prog        == IF notify THEN <<add(t.progress[1], UPDATE_COUNT)>> ELSE t.progress
           child_index == get_child_index(t.bounding_box, p.position)
           child       == child_node_name(name, child_index)
           fresh       == is_none(t.children, child_index)
           fs          == IF fresh THEN NodeWriter_new(files, child) ELSE files
           count       == IF fresh THEN 0 ELSE t.children[child_index]
       IN  /\ progress_chan' = IF notify THEN send_status(progress_chan, name, prog[1])
                               ELSE progress_chan
           /\ files' = NodeWriter_write(fs, child, p)
           /\ tasks' = [tasks EXCEPT
                  ![name].num_point = @ + 1,
                  ![name].progress = prog,
                  ![name].children = [i \in DOMAIN t.children \cup {child_index} |->
                                         IF i = child_index THEN count + 1 ELSE t.children[i]]]
    /\ UNCHANGED <<input, size_hint, leaf_chan, reporter, main_pc, leaf_nodes,
                   subs, iterations>>

\* the indices of a set of integers in increasing order
RECURSIVE Ascending(_)
Ascending(S) ==
    IF S = {} THEN << >>
    ELSE LET m == CHOOSE a \in S : \A b \in S : a <= b
         IN  <<m>> \o Ascending(S \ {m})

\* NodeWriter::drop for the writers in ws (child index -> num_points)
RECURSIVE DropWriters(_, _, _, _)
DropWriters(fs, name, ws, order) ==
    IF order = << >> THEN fs
    ELSE LET i == Head(order)
         IN  DropWriters(NodeWriter_drop(fs, child_node_name(name, i), ws[i]),
                         name, ws, Tail(order))

\* a bug: the node's own file is kept
remove_node_file_skip(fs, name) == fs

\* let _ = fs::remove_file(octree::node_path(output_directory, name))
remove_node_file(fs, name) == Remove(fs, name)

\* a bug: a child of exactly T points is taken for a leaf
is_leaf_le(num_points) == num_points <= T

\* the partition of split_node: |n| n.num_points < 100000
is_leaf(num_points) == num_points < T

\* the rest of split once the stream is drained, and the rest of split_node:
\* the node's file is removed, the writers are released, the progress is
\* finished, the big children are dispatched and the small ones reported.
\* A dispatched child cannot touch anything this invocation still uses, so
\* the dispatch and the sends are taken in one step.
SplitNodeEnd(name) ==
    /\ Running(name)
    /\ tasks[name].num_point = Len(Stream(name))
    /\ LET t           == tasks[name]
           rv          == Ascending(DOMAIN t.children)
           small(i)    == is_leaf(t.children[i])
           leaves      == SelectSeq(rv, small)
           split_nodes == { i \in DOMAIN t.children : ~small(i) }
           spawned     == { child_node_name(name, i) : i \in split_nodes }
           index_of(n) == CHOOSE i \in split_nodes : child_node_name(name, i) = n
       IN  /\ files' = DropWriters(remove_node_file(files, name), name, t.children, rv)
           /\ progress_chan' =
                  IF t.progress = NoProgress THEN progress_chan
                  ELSE send_status(progress_chan, name,
                                   [t.progress[1] EXCEPT !.current_points = t.progress[1].num_points])
           /\ tasks' = [n \in DOMAIN tasks \cup spawned |->
                  IF n = name THEN [t EXCEPT !.pc = "done"]
                  ELSE IF n \in spawned
                       THEN PendingTask(get_child_bounding_box(t.bounding_box, index_of(n)),
                                        t.children[index_of(n)])
                       ELSE tasks[n]]
           /\ leaf_chan' = leaf_chan \o [k \in 1..Len(leaves) |-> child_node_name(name, leaves[k])]
    /\ main_pc' = IF name = "r" THEN "join" ELSE main_pc
    /\ UNCHANGED <<input, size_hint, reporter, leaf_nodes, subs, iterations>>

---------------------------------------------------------------------------
(* The progress reporter *)

\* a Sender of the progress channel is alive: main's closure holds one until
\* it returns, and every split_node invocation holds one until it returns
ProgressSenders == main_pc = "scoped" \/ \E n \in DOMAIN tasks : tasks[n].pc # "done"

\* format!("{:.2}%", current / num * 100.), in hundredths of a percent
Percent(status) ==
    IF status.num_points = 0 THEN -1
    ELSE (status.current_points * 10000) \div status.num_points

ReporterStart ==
    /\ reporter.pc = "pending"
    /\ BusyWorkers < PoolSize
    /\ reporter' = [reporter EXCEPT !.pc = "running"]
    /\ UNCHANGED <<input, size_hint, files, tasks, leaf_chan, progress_chan,
                   main_pc, leaf_nodes, subs, iterations>>

\* one iteration of the while loop of report_progress
ReporterRecv ==
    /\ reporter.pc = "running"
    /\ progress_chan # << >>
    /\ LET status   == Head(progress_chan)
           inserted == [n \in DOMAIN reporter.progress \cup {status.name} |->
                           IF n = status.name THEN Percent(status) ELSE reporter.progress[n]]
       IN  reporter' = [reporter EXCEPT !.progress =
                           IF status.num_points = status.current_points
                           THEN [n \in DOMAIN inserted \ {status.name} |-> inserted[n]]
                           ELSE inserted]
    /\ progress_chan' = Tail(progress_chan)
    /\ UNCHANGED <<input, size_hint, files, tasks, leaf_chan, main_pc,
                   leaf_nodes, subs, iterations>>

\* recv() fails: the channel is empty and every Sender is gone
ReporterExit ==
    /\ reporter.pc = "running"
    /\ progress_chan = << >>
    /\ ~ProgressSenders
    /\ reporter' = [reporter EXCEPT !.pc = "done"]
    /\ UNCHANGED <<input, size_hint, files, tasks, leaf_chan, progress_chan,
                   main_pc, leaf_nodes, subs, iterations>>

---------------------------------------------------------------------------
(* main after the split phase: the leaf list and the subsample loop *)

\* the names of s that have length n, in the order of s
OfLength(s, n) == LET same(name) == Len(name) = n IN SelectSeq(s, same)

\* a bug: the names of the current length stay on the list
NotOfLength_all(s, n) == s

\* the second half of the partition
NotOfLength(s, n) == LET other(name) == Len(name) # n IN SelectSeq(s, other)

RECURSIVE MaxLength(_)
MaxLength(s) == IF s = << >> THEN 0 ELSE Max2(Len(Head(s)), MaxLength(Tail(s)))

\* leaf_nodes.sort_by(|a, b| b.len().cmp(&a.len())): a stable sort, longest first
RECURSIVE SortFrom(_, _)
SortFrom(s, n) == IF n = 0 THEN << >> ELSE OfLength(s, n) \o SortFrom(s, n - 1)

sort_by_len(s) == SortFrom(s, MaxLength(s))

\* a bug: the scope waits for the root's split_node only
SplitPhaseOver_root_only == tasks["r"].pc = "done"

SplitPhaseOver ==
    /\ \A n \in DOMAIN tasks : tasks[n].pc = "done"
    /\ reporter.pc = "done"

\* pool.scoped returns once every task of the scope has finished; the
\* receiver is drained into leaf_nodes and the list is sorted
CollectLeaves ==
    /\ main_pc = "join"
    /\ SplitPhaseOver
    /\ leaf_nodes' = sort_by_len(leaf_chan)
    /\ main_pc' = "loop"
    /\ UNCHANGED <<input, size_hint, files, tasks, leaf_chan, progress_chan,
                   reporter, subs, iterations>>

\* the for loop over res.0: the parents to subsample and the grandparents
\* pushed on the rest of the list
RECURSIVE ScanNodes(_, _, _)
ScanNodes(nodes, parent_names, rest) ==
    IF nodes = << >> THEN [parent_names |-> parent_names, leaf_nodes |-> rest]
    ELSE LET parent_name == parent_node_name(Head(nodes))
             grand_parent == parent_node_name(parent_name)
         IN  IF Len(parent_name) = 0 \/ parent_name \in parent_names
             THEN ScanNodes(Tail(nodes), parent_names, rest)
             ELSE ScanNodes(Tail(nodes), parent_names \cup {parent_name},
                            IF Len(grand_parent) # 0 THEN Append(rest, grand_parent) ELSE rest)

\* a bug: the whole list is taken as the current level
same_length_all(nodes, current_length) == nodes

\* the first half of the partition: |n| n.len() == current_length
same_length(nodes, current_length) == OfLength(nodes, current_length)

PendingSub == [pc |-> "pending", i |-> 0, points |-> << >>, parent |-> 0, child |-> 0]

\* one iteration of the while loop of main up to the dispatch of the tasks
LoopIteration ==
    /\ main_pc = "loop"
    /\ leaf_nodes # << >>
    /\ LET current_length == Len(leaf_nodes[1])
           res == ScanNodes(same_length(leaf_nodes, current_length), {},
                            NotOfLength(leaf_nodes, current_length))
       IN  /\ leaf_nodes' = res.leaf_nodes
           /\ subs' = [p \in res.parent_names |-> PendingSub]
           /\ iterations' = Append(iterations, [current_length |-> current_length,
                                                parent_names |-> res.parent_names])
    /\ main_pc' = "scoped_subsample"
    /\ UNCHANGED <<input, size_hint, files, tasks, leaf_chan, progress_chan, reporter>>

\* pool.scoped of the loop returns once every subsample task has finished
LoopJoin ==
    /\ main_pc = "scoped_subsample"
    /\ \A p \in DOMAIN subs : subs[p].pc = "done"
    /\ main_pc' = "loop"
    /\ subs' = << >>
    /\ UNCHANGED <<input, size_hint, files, tasks, leaf_chan, progress_chan,
                   reporter, leaf_nodes, iterations>>

LoopExit ==
    /\ main_pc = "loop"
    /\ leaf_nodes = << >>
    /\ main_pc' = "done"
    /\ UNCHANGED <<input, size_hint, files, tasks, leaf_chan, progress_chan,
                   reporter, leaf_nodes, subs, iterations>>

---------------------------------------------------------------------------
(* subsample_children_into *)

\* a bug: the index is counted from 1
ToParent_from_one(s) ==
    LET RECURSIVE Pick(_)
        Pick(k) == IF k > Len(s) THEN << >>
                   ELSE (IF k % SampleStride = 0 THEN <<s[k]>> ELSE << >>) \o Pick(k + 1)
    IN  Pick(1)

\* the points of s whose index (from 0) is 0 modulo SampleStride
ToParent(s) ==
    LET RECURSIVE Pick(_)
        Pick(k) == IF k > Len(s) THEN << >>
                   ELSE (IF (k - 1) % SampleStride = 0 THEN <<s[k]>> ELSE << >>) \o Pick(k + 1)
    IN  Pick(1)

\* a bug: every point is written back to the child
ToChild_all(s) == s

ToChild(s) ==
    LET RECURSIVE Pick(_)
        Pick(k) == IF k > Len(s) THEN << >>
                   ELSE (IF (k - 1) % SampleStride = 0 THEN << >> ELSE <<s[k]>>) \o Pick(k + 1)
    IN  Pick(1)

\* NodeWriter::new for the parent
SubsampleBegin(p) ==
    /\ p \in DOMAIN subs
    /\ subs[p].pc = "pending"
    /\ BusyWorkers < PoolSize
    /\ files' = NodeWriter_new(files, p)
    /\ subs' = [subs EXCEPT ![p].pc = "next"]
    /\ UNCHANGED <<input, size_hint, tasks, leaf_chan, progress_chan, reporter,
                   main_pc, leaf_nodes, iterations>>

\* the head of the for loop: path.exists() and, for a child that exists, the
\* read of all of its points
SubsampleRead(p) ==
    /\ p \in DOMAIN subs
    /\ subs[p].pc = "next"
    /\ subs[p].i < 8
    /\ LET child_name == child_node_name(p, subs[p].i)
       IN  subs' = IF Exists(files, child_name)
                   THEN [subs EXCEPT ![p].pc = "read", ![p].points = files[child_name]]
                   ELSE [subs EXCEPT ![p].i = @ + 1]
    /\ UNCHANGED <<input, size_hint, files, tasks, leaf_chan, progress_chan,
                   reporter, main_pc, leaf_nodes, iterations>>

\* NodeWriter::new for the child
SubsampleOpen(p) ==
    /\ p \in DOMAIN subs
    /\ subs[p].pc = "read"
    /\ files' = NodeWriter_new(files, child_node_name(p, subs[p].i))
    /\ subs' = [subs EXCEPT ![p].pc = "write", ![p].child = 0]
    /\ UNCHANGED <<input, size_hint, tasks, leaf_chan, progress_chan, reporter,
                   main_pc, leaf_nodes, iterations>>

\* the loop over the points and the release of the child's writer
SubsampleWrite(p) ==
    /\ p \in DOMAIN subs
    /\ subs[p].pc = "write"
    /\ LET child_name == child_node_name(p, subs[p].i)
           up         == ToParent(subs[p].points)
           down       == ToChild(subs[p].points)
           written    == [files EXCEPT ![p] = @ \o up, ![child_name] = @ \o down]
           num_points == subs[p].child + Len(down)
       IN  /\ files' = NodeWriter_drop(written, child_name, num_points)
           /\ subs' = [subs EXCEPT ![p].pc = "next", ![p].i = @ + 1,
                                   ![p].points = << >>,
                                   ![p].parent = @ + Len(up),
                                   ![p].child = 0]
    /\ UNCHANGED <<input, size_hint, tasks, leaf_chan, progress_chan, reporter,
                   main_pc, leaf_nodes, iterations>>

\* the end of the function: the parent's writer is released
SubsampleEnd(p) ==
    /\ p \in DOMAIN subs
    /\ subs[p].pc = "next"
    /\ subs[p].i = 8
    /\ files' = NodeWriter_drop(files, p, subs[p].parent)
    /\ subs' = [subs EXCEPT ![p].pc = "done"]
    /\ UNCHANGED <<input, size_hint, tasks, leaf_chan, progress_chan, reporter,
                   main_pc, leaf_nodes, iterations>>

Next ==
    \/ \E name \in DOMAIN tasks : SplitNodeBegin(name)
    \/ \E name \in DOMAIN tasks : SplitPoint(name)
    \/ \E name \in DOMAIN tasks : SplitNodeEnd(name)
    \/ ReporterStart
    \/ ReporterRecv
    \/ ReporterExit
    \/ CollectLeaves
    \/ LoopIteration
    \/ LoopJoin
    \/ LoopExit
    \/ \E p \in DOMAIN subs : SubsampleBegin(p)
    \/ \E p \in DOMAIN subs : SubsampleRead(p)
    \/ \E p \in DOMAIN subs : SubsampleOpen(p)
    \/ \E p \in DOMAIN subs : SubsampleWrite(p)
    \/ \E p \in DOMAIN subs : SubsampleEnd(p)

Spec == Init /\ [][Next]_vars

(* The same program under the scheduling the pool and the operating system *)
(* give: a thread that can run does run, so the split tasks, the reporter, *)
(* main and the subsample tasks each keep taking steps while they can.     *)

SplitStep ==
    \E name \in DOMAIN tasks :
        SplitNodeBegin(name) \/ SplitPoint(name) \/ SplitNodeEnd(name)

ReporterStep == ReporterStart \/ ReporterRecv \/ ReporterExit

MainStep == CollectLeaves \/ LoopIteration \/ LoopJoin \/ LoopExit

SubsampleStep ==
    \E p \in DOMAIN subs :
        \/ SubsampleBegin(p) \/ SubsampleRead(p) \/ SubsampleOpen(p)
        \/ SubsampleWrite(p) \/ SubsampleEnd(p)

SpecLive ==
    /\ Init /\ [][Next]_vars
    /\ WF_vars(SplitStep) /\ WF_vars(ReporterStep)
    /\ WF_vars(MainStep) /\ WF_vars(SubsampleStep)

---------------------------------------------------------------------------
(* One invocation of subsample_children_into on its own: the loop of main  *)
(* has dispatched the task for "r", whose children r2 and r5 are absent or *)
(* hold up to MaxFileLen points.                                           *)

\* the longest child file of this specification
MaxFileLen == 17

\* n points, the pool in rotation from offset off
PoolCycle(n, off) == [k \in 1..n |-> PointPool[((k + off - 1) % Len(PointPool)) + 1]]

\* the directory with a file of n2 points for r2 and of n5 points for r5,
\* no file where the count is 0
ChildFiles(n2, n5) ==
    [n \in (IF n2 > 0 THEN {"r2"} ELSE {}) \cup (IF n5 > 0 THEN {"r5"} ELSE {}) |->
        IF n = "r2" THEN PoolCycle(n2, 0) ELSE PoolCycle(n5, 2)]

InitSubsample ==
    /\ input = << >>
    /\ size_hint = FALSE
    /\ \E n2, n5 \in 0..MaxFileLen : files = ChildFiles(n2, n5)
    /\ tasks = << >>
    /\ leaf_chan = << >>
    /\ progress_chan = << >>
    /\ reporter = [pc |-> "done", progress |-> << >>]
    /\ main_pc = "scoped_subsample"
    /\ leaf_nodes = << >>
    /\ subs = [q \in {"r"} |-> PendingSub]
    /\ iterations = << [current_length |-> 2, parent_names |-> {"r"}] >>

NextSubsample ==
    \/ \E p \in DOMAIN subs : SubsampleBegin(p)
    \/ \E p \in DOMAIN subs : SubsampleRead(p)
    \/ \E p \in DOMAIN subs : SubsampleOpen(p)
    \/ \E p \in DOMAIN subs : SubsampleWrite(p)
    \/ \E p \in DOMAIN subs : SubsampleEnd(p)
    \/ LoopJoin
    \/ LoopExit

SpecSubsample == InitSubsample /\ [][NextSubsample]_vars

---------------------------------------------------------------------------
(* Vocabulary of the properties *)

Range(s) == { s[k] : k \in DOMAIN s }

\* the names delivered on the leaf_nodes channel
LeafNames == Range(leaf_chan)

\* the proper ancestors of a node: its non-empty proper prefixes
Ancestors(name) == { SubSeq(name, 1, k) : k \in 1..(Len(name) - 1) }

BagOfSeq(s) ==
    LET vals == Range(s)
    IN  [v \in vals |-> Cardinality({ k \in DOMAIN s : s[k] = v })]

\* the points stored in the files named, with their multiplicities
RECURSIVE StoredPoints(_, _)
StoredPoints(fs, names) ==
    IF names = {} THEN EmptyBag
    ELSE LET n == CHOOSE m \in names : TRUE
         IN  BagOfSeq(fs[n]) (+) StoredPoints(fs, names \ {n})

RECURSIVE StoredCount(_, _)
StoredCount(fs, names) ==
    IF names = {} THEN 0
    ELSE LET n == CHOOSE m \in names : TRUE
         IN  Len(fs[n]) + StoredCount(fs, names \ {n})

\* every split task has returned and the subsample loop has not begun
SplitCompleted ==
    /\ main_pc \in {"join", "loop"}
    /\ \A n \in DOMAIN tasks : tasks[n].pc = "done"
    /\ iterations = << >>

PipelineFinished == main_pc = "done"

\* the NodeWriters that are open: those of the children array of a running
\* split (slot = child index), the parent writer of a running
\* subsample_children_into (slot 8) and its child writer (slot = i)
OpenWriters ==
    LET splitting   == { m \in DOMAIN tasks : tasks[m].pc = "running" }
        subsampling == { m \in DOMAIN subs : subs[m].pc \in {"next", "read", "write"} }
        rewriting   == { m \in DOMAIN subs : subs[m].pc = "write" }
    IN  UNION { UNION { { [kind |-> "split", owner |-> n, slot |-> i,
                           path |-> child_node_name(n, i)] :
                          i \in DOMAIN tasks[n].children } : n \in splitting },
                { [kind |-> "subsample", owner |-> q, slot |-> 8, path |-> q] :
                    q \in subsampling },
                { [kind |-> "subsample", owner |-> q, slot |-> subs[q].i,
                   path |-> child_node_name(q, subs[q].i)] : q \in rewriting } }

\* the tasks that are running in the pool (or, for the root, on main)
ActiveTasks ==
    { [kind |-> "split", name |-> n] : n \in { m \in DOMAIN tasks : tasks[m].pc = "running" } }
    \cup { [kind |-> "subsample", name |-> q] :
             q \in { m \in DOMAIN subs : subs[m].pc \in {"next", "read", "write"} } }

\* the paths a task for the node creates, writes, truncates or deletes
Touches(name) == {name} \cup { child_node_name(name, i) : i \in 0..7 }

---------------------------------------------------------------------------
(* C1: after the whole pipeline, every proper ancestor of every reported   *)
(* leaf whose file still exists has a file as well.                        *)
C1_AncestorsOfLeavesExist ==
    PipelineFinished =>
        \A leaf \in LeafNames :
            Exists(files, leaf) => \A a \in Ancestors(leaf) : Exists(files, a)

(* C2: when the subsample loop exits, the root file "r" has been produced  *)
(* and is not empty.                                                       *)
C2_RootProduced ==
    PipelineFinished => (Exists(files, "r") /\ files["r"] # << >>)

(* C3: the subsample phase is level-synchronous: the current_length values *)
(* of successive loop iterations are strictly decreasing.                  *)
C3_LevelsStrictlyDecrease ==
    \A i, j \in DOMAIN iterations :
        i < j => iterations[i].current_length > iterations[j].current_length

(* C4: no parent name is passed to subsample_children_into in two          *)
(* different loop iterations, so no child file is consumed twice.          *)
C4_ParentSubsampledOnce ==
    \A i, j \in DOMAIN iterations :
        i < j => iterations[i].parent_names \cap iterations[j].parent_names = {}

(* C5: conservation under split: when the split phase has completed, the  *)
(* leaf files together hold exactly the input points, each once: the sum   *)
(* of their point counts is the length of the input and the bag of their   *)
(* points is the bag of the input points.                                  *)
C5_SplitConservesPoints ==
    SplitCompleted =>
        /\ LeafNames \subseteq DOMAIN files
        /\ Cardinality(LeafNames) = Len(leaf_chan)
        /\ StoredCount(files, LeafNames) = Len(input)
        /\ StoredPoints(files, LeafNames) = BagOfSeq(input)

\* the split phase has completed after two split tasks other than the
\* root's have run and leaves at two depths have been reported
C5_Witness ==
    /\ SplitCompleted
    /\ Cardinality(DOMAIN tasks) >= 3
    /\ \E a, b \in LeafNames : Len(a) < Len(b)

\* the points of a file, none when the file does not exist
Content(fs, name) == IF Exists(fs, name) THEN fs[name] ELSE << >>

\* s[0], s[8], s[16], ... (indices from 0)
EveryEighth(s) == [j \in 1..((Len(s) + 7) \div 8) |-> s[8 * (j - 1) + 1]]

\* the other points of s, in their order
AllButEveryEighth(s) ==
    [j \in 1..(Len(s) - (Len(s) + 7) \div 8) |-> s[j + (j - 1) \div 7 + 1]]

(* C6: one invocation of subsample_children_into(p): for every child that  *)
(* exists with points s, all of s is read, then s[0], s[8], s[16], ... are *)
(* appended to the parent in read order and the child is rewritten to the  *)
(* other points in their order, so that the parent receives ceil(n/8)      *)
(* points, the child keeps n - ceil(n/8), and moved plus kept are the      *)
(* prior contents; a child that does not exist is neither read nor         *)
(* created.  Stated of every step of an invocation.                        *)
C6_SubsampleStep ==
    [][\A q \in DOMAIN subs \cap DOMAIN subs' :
          LET child == child_node_name(q, subs[q].i)
              s     == subs[q].points
              n     == Len(s)
          IN  /\ (subs[q].pc = "next" /\ subs[q].i < 8 /\ subs'[q] # subs[q]) =>
                     /\ files' = files
                     /\ IF Exists(files, child)
                        THEN subs'[q].points = files[child] /\ subs'[q].i = subs[q].i
                        ELSE subs'[q].points = << >> /\ subs'[q].pc = "next"
                             /\ subs'[q].i = subs[q].i + 1
              /\ subs[q].pc = "read" => files[child] = s
              /\ (subs[q].pc = "write" /\ subs'[q].pc = "next") =>
                     /\ files'[q] = files[q] \o EveryEighth(s)
                     /\ Content(files', child) = AllButEveryEighth(s)
                     /\ Len(files'[q]) = Len(files[q]) + (n + 7) \div 8
                     /\ Len(Content(files', child)) = n - (n + 7) \div 8
                     /\ BagOfSeq(EveryEighth(s)) (+) BagOfSeq(Content(files', child))
                            = BagOfSeq(s)
                     /\ \A m \in (DOMAIN files \cup DOMAIN files') \ {q, child} :
                            Content(files', m) = Content(files, m)
                     /\ subs'[q].i = subs[q].i + 1
      ]_vars

\* the invocation is over: r2 held 11 points or more, of which the parent
\* has received two or more and r2 keeps nine or more; r5 never existed
C6_Witness ==
    /\ "r" \in DOMAIN subs
    /\ subs["r"].pc = "done"
    /\ tasks = << >>
    /\ Exists(files, "r2") /\ Len(files["r2"]) >= 9
    /\ Exists(files, "r") /\ Len(files["r"]) >= 2
    /\ ~Exists(files, "r5")

(* C7: no empty files: a node file without points exists only while a     *)
(* NodeWriter is open on it; hence whenever no NodeWriter is open no       *)
(* zero-point file exists, a released writer that wrote nothing having     *)
(* removed its file.                                                       *)
C7_NoEmptyFiles ==
    /\ \A n \in DOMAIN files :
           files[n] = << >> => \E w \in OpenWriters : w.path = n
    /\ OpenWriters = {} => \A n \in DOMAIN files : Len(files[n]) > 0

\* the pipeline has finished, a leaf emptied by subsampling is gone and so
\* is a parent that was subsampled from no child
C7_Witness ==
    /\ PipelineFinished
    /\ OpenWriters = {}
    /\ \E leaf \in LeafNames : ~Exists(files, leaf)
    /\ \E k \in DOMAIN iterations : \E q \in iterations[k].parent_names :
           /\ ~Exists(files, q)
           /\ \A i \in 0..7 : child_node_name(q, i) \notin LeafNames
           /\ \A j \in DOMAIN iterations :
                  \A i \in 0..7 : child_node_name(q, i) \notin iterations[j].parent_names

C9_FilesAreTheLeaves ==
    /\ iterations = << >> => ~Exists(files, "r")
    /\ SplitCompleted =>
           /\ DOMAIN files = LeafNames
           /\ \A n \in DOMAIN tasks : ~Exists(files, n)
           /\ \A n \in DOMAIN files : files[n] # << >>

\* the split phase has completed after a recursion
C9_Witness ==
    /\ SplitCompleted
    /\ \E n \in DOMAIN tasks : n # "r"
    /\ Len(leaf_chan) >= 2

(* C10: leaf threshold: a child returned by split with fewer than T points *)
(* is sent on the leaf_nodes channel once and never split; a child with T  *)
(* points or more is dispatched as a split task that reads that child's    *)
(* file and is never reported; the root is split whatever its count.  So   *)
(* every reported leaf holds fewer than T points and the leaf names are    *)
(* prefix-free.                                                            *)
C10_LeafThreshold ==
    /\ \A n \in DOMAIN tasks : tasks[n].pc = "done" =>
           \A i \in DOMAIN tasks[n].children :
               LET child == child_node_name(n, i)
               IN  IF tasks[n].children[i] < T
                   THEN child \in LeafNames /\ child \notin DOMAIN tasks
                   ELSE child \notin LeafNames /\ child \in DOMAIN tasks
    /\ \A j, k \in DOMAIN leaf_chan : j # k => leaf_chan[j] # leaf_chan[k]
    /\ "r" \in DOMAIN tasks /\ "r" \notin LeafNames
    /\ \A n \in DOMAIN tasks \ {"r"} :
           /\ tasks[n].num_points >= T
           /\ tasks[n].pc # "done" =>
                  Exists(files, n) /\ Len(files[n]) = tasks[n].num_points
    /\ iterations = << >> =>
           \A leaf \in LeafNames : Exists(files, leaf) /\ Len(files[leaf]) < T
    /\ \A a, b \in LeafNames : a \notin Ancestors(b)

\* a split returned a child of exactly T points, which has been split in
\* turn, and a child of fewer, which has been reported
C10_Witness ==
    \E n \in DOMAIN tasks :
        /\ tasks[n].pc = "done"
        /\ \E i, j \in DOMAIN tasks[n].children :
               /\ tasks[n].children[i] = T
               /\ child_node_name(n, i) \in DOMAIN tasks
               /\ tasks[child_node_name(n, i)].pc = "done"
               /\ tasks[n].children[j] < T
               /\ child_node_name(n, j) \in LeafNames

---------------------------------------------------------------------------
\* the child index a digit of a node name stands for
DigitValue(ch) == CHOOSE i \in 0..7 : Digit[i + 1] = ch

\* the digit at position k of a node name (k >= 2)
DigitAt(name, k) == DigitValue(SubSeq(name, k, k))

\* ((p.x > c.x) << 2) | ((p.y > c.y) << 1) | (p.z > c.z) is the digit d
InOctant(bb, v, d) ==
    LET c == center(bb)
    IN  /\ (v.x > c.x) <=> ((d \div 4) % 2 = 1)
        /\ (v.y > c.y) <=> ((d \div 2) % 2 = 1)
        /\ (v.z > c.z) <=> (d % 2 = 1)

(* C11: partition correctness: in the split phase every point stored in a  *)
(* node file N lies, at every level k of the path from the root to N, in   *)
(* the octant of the k-th digit of N relative to the centre of the box of  *)
(* N's prefix, which is the box the split task of that prefix works with:  *)
(* the root's cubic box, narrowed to the octant of each digit in turn.  In *)
(* particular this holds of the leaf files after splitting.                *)
C11_PartitionCorrect ==
    iterations = << >> /\ input # << >> =>
        /\ \A n \in DOMAIN tasks :
               tasks[n].bounding_box =
                   IF n = "r" THEN make_cubic(RawBox(input))
                   ELSE get_child_bounding_box(tasks[parent_node_name(n)].bounding_box,
                                               DigitAt(n, Len(n)))
        /\ \A n \in DOMAIN files : \A k \in 2..Len(n) :
               LET bb == tasks[SubSeq(n, 1, k - 1)].bounding_box
               IN  \A j \in DOMAIN files[n] :
                       InOctant(bb, files[n][j].position, DigitAt(n, k))

\* the split phase has completed with leaves three levels or more below the
\* root, and with leaves in two octants of the root
C11_Witness ==
    /\ SplitCompleted
    /\ \E n \in LeafNames : Len(n) >= 4 /\ Len(files[n]) >= 2
    /\ \E a, b \in LeafNames : DigitAt(a, 2) # DigitAt(b, 2)

---------------------------------------------------------------------------
\* main is past the split phase: the leaf list has been collected, or a
\* loop iteration or a subsample task exists
SubsamplePhase ==
    \/ main_pc \in {"loop", "scoped_subsample", "done"}
    \/ leaf_nodes # << >>
    \/ subs # << >>
    \/ iterations # << >>

(* C12: phase ordering: the leaf list is not collected, sorted or consumed *)
(* and no subsample_children_into starts until every split task, the       *)
(* recursively dispatched ones included, has returned, every leaf has been *)
(* sent, and the leaf_nodes and progress channels are closed: no Sender is *)
(* alive, no Status is in flight and the reporter has returned.            *)
C12_PhaseOrdering ==
    SubsamplePhase =>
        /\ main_pc # "scoped" /\ main_pc # "join"
        /\ \A n \in DOMAIN tasks : tasks[n].pc = "done"
        /\ \A n \in DOMAIN tasks : \A i \in DOMAIN tasks[n].children :
               tasks[n].children[i] < T => child_node_name(n, i) \in LeafNames
        /\ progress_chan = << >>
        /\ reporter.pc = "done"
        /\ iterations = << >> =>
               /\ Len(leaf_nodes) = Len(leaf_chan)
               /\ Range(leaf_nodes) = LeafNames
               /\ \A j, k \in DOMAIN leaf_nodes :
                      j < k => Len(leaf_nodes[j]) >= Len(leaf_nodes[k])

\* a subsample task is running after a split phase with recursion and with
\* progress reports
C12_Witness ==
    /\ main_pc = "scoped_subsample"
    /\ \E q \in DOMAIN subs : subs[q].pc = "read"
    /\ Cardinality(DOMAIN tasks) >= 3
    /\ size_hint

---------------------------------------------------------------------------
(* C13: single-point input: after the full pipeline the output directory   *)
(* holds exactly one node file, "r", with that one point; none of r0..r7   *)
(* exists.                                                                 *)
C13_SinglePoint ==
    (PipelineFinished /\ Len(input) = 1) =>
        /\ DOMAIN files = {"r"}
        /\ files["r"] = input
        /\ \A i \in 0..7 : ~Exists(files, child_node_name("r", i))

\* the pipeline has finished on a single point, which the split had put in
\* r0 and one loop iteration has moved to r
C13_Witness ==
    /\ PipelineFinished
    /\ Len(input) = 1
    /\ leaf_chan = << "r0" >>
    /\ Len(iterations) = 1
    /\ iterations[1].parent_names = {"r"}

---------------------------------------------------------------------------
\* main's closure has returned and every split task has returned
AllSplitReturned ==
    /\ main_pc # "scoped"
    /\ \A n \in DOMAIN tasks : tasks[n].pc = "done"

\* the pool scope of the split phase has joined
ScopeJoined == main_pc \notin {"scoped", "join"}

\* a split task has been dispatched below the depth the model follows
DepthExceeded == \E n \in DOMAIN tasks : Len(n) > MaxSplitLen

---------------------------------------------------------------------------
\* a NodeWriter is open on the path
WriterOpenOn(path) == \E w \in OpenWriters : w.path = path

(* C15: reader/writer exclusion.  A split task other than the root's, from *)
(* its dispatch to its return, never finds a NodeWriter open on the file   *)
(* it reads; subsample_children_into reads a child while no NodeWriter is  *)
(* open on it, and opens (truncates) the child only when it holds all of   *)
(* the child's points in memory.                                           *)
C15_ReaderWriterExclusion ==
    /\ [](\A n \in DOMAIN tasks :
              (n # "r" /\ tasks[n].pc # "done") => (Exists(files, n) /\ ~WriterOpenOn(n)))
    /\ [][\A q \in DOMAIN subs \cap DOMAIN subs' :
              LET child == child_node_name(q, subs[q].i)
              IN  /\ (subs[q].pc = "next" /\ subs'[q].pc = "read") =>
                         /\ ~WriterOpenOn(child)
                         /\ subs'[q].points = files[child]
                  /\ (subs[q].pc = "read" /\ subs'[q].pc = "write") =>
                         /\ subs[q].points = files[child]
                         /\ files'[child] = << >>
      ]_vars

\* a child with points has been read and then truncated, after a split
\* phase in which tasks other than the root's read the files their parents
\* had written
C15_Witness ==
    /\ \E q \in DOMAIN subs : subs[q].pc = "write" /\ Len(subs[q].points) >= 2
    /\ Cardinality(DOMAIN tasks) >= 3

---------------------------------------------------------------------------
(* C16: progress accounting in split: before the finish message the        *)
(* current value a node has reported never exceeds the number of points    *)
(* already taken from the node's stream, nor the total.                    *)
C16_ProgressWithinConsumed ==
    \A n \in DOMAIN tasks :
        (tasks[n].pc = "running" /\ tasks[n].progress # NoProgress) =>
            /\ tasks[n].progress[1].current_points <= tasks[n].num_point
            /\ tasks[n].progress[1].current_points <= tasks[n].progress[1].num_points

---------------------------------------------------------------------------
(* C17: whole-pipeline conservation: when the subsample loop has exited,   *)
(* the bag of the points stored in all node files, leaves and interior     *)
(* nodes together, is the bag of the input points.                         *)
C17_PipelineConservesPoints ==
    PipelineFinished => StoredPoints(files, DOMAIN files) = BagOfSeq(input)

---------------------------------------------------------------------------
---------------------------------------------------------------------------
\* the sum of the lengths of the names of a list
RECURSIVE TotalLength(_)
TotalLength(s) == IF s = << >> THEN 0 ELSE Len(Head(s)) + TotalLength(Tail(s))

(* C20: subsample-loop termination: an iteration of main's while loop      *)
(* removes every name of the current length from leaf_nodes, keeps the     *)
(* other names as they are and adds only non-empty names two shorter than  *)
(* the current length, so the summed length of the list goes down; and     *)
(* once main is at the loop it eventually leaves it with leaf_nodes empty. *)
C20_SubsampleLoopTerminates ==
    /\ [][(main_pc = "loop" /\ main_pc' = "scoped_subsample") =>
              LET current_length == Len(leaf_nodes[1])
              IN  /\ \A k \in DOMAIN leaf_nodes' :
                         /\ Len(leaf_nodes'[k]) # current_length
                         /\ Len(leaf_nodes'[k]) >= 1
                  /\ \A m \in 1..MaxLength(leaf_nodes) :
                         m \notin {current_length, current_length - 2} =>
                             OfLength(leaf_nodes', m) = OfLength(leaf_nodes, m)
                  /\ \A k \in DOMAIN leaf_nodes' :
                         (\A j \in DOMAIN leaf_nodes : leaf_nodes[j] # leaf_nodes'[k]) =>
                             Len(leaf_nodes'[k]) = current_length - 2
                  /\ TotalLength(leaf_nodes') < TotalLength(leaf_nodes)
      ]_vars
    /\ (main_pc = "loop") ~> (main_pc = "done" /\ leaf_nodes = << >>)

\* the loop has ended after three iterations or more, one of which pushed
\* a grandparent
C20_Witness ==
    /\ PipelineFinished
    /\ leaf_nodes = << >>
    /\ Len(iterations) >= 3
    /\ \E k \in DOMAIN iterations : iterations[k].current_length >= 4

====
